---- MODULE Spec2Model ----
(***************************************************************************)
(* Model of run.sh, the setup-and-run script of the DevOps portfolio       *)
(* project (src/run.sh lines 1-267).  One behaviour is one invocation of   *)
(* the script: the case dispatch selects the list of calls of the chosen   *)
(* branch, every function of the script is one action, `set -e` aborts at  *)
(* the first failing command, and the EXIT trap runs cleanup before the    *)
(* process ends.  External commands (npm, docker, docker-compose, curl)    *)
(* answer with a nondeterministic exit status.                             *)
(*                                                                         *)
(* Assumptions: LOCAL_PID is not exported by the calling environment; an   *)
(* interrupt is the terminal's Ctrl+C (SIGINT to the foreground process    *)
(* group) and arrives while the main body runs, not inside the EXIT trap.  *)
(* SpecEnv is the same script without the first assumption: the script     *)
(* never assigns LOCAL_PID before start_app, so it starts with whatever    *)
(* value the environment exports.                                          *)
(*                                                                         *)
(* Two further programs of the repository are modelled beside the script:  *)
(* healthcheck.js (src/run.sh lines 268-291), one run of the container     *)
(* health probe against a peer that refuses, answers or stays silent, and  *)
(* app.js (src/unnamed/part_001), the Express application as the chain of  *)
(* its middleware, one action per middleware or route.  Each program has   *)
(* its own specification; the variables of the others keep their initial   *)
(* values in it.                                                           *)
(***************************************************************************)
EXTENDS Integers, Sequences, FiniteSets, TLC

VARIABLES
    argv,          \* positional arguments of the invocation: <<>> or <<a>>
    present,       \* tools that `command -v` resolves on PATH
    pc,            \* "main": case body runs; "trap": EXIT trap pending; "done"
    todo,          \* calls of the selected branch still to be executed
    LOCAL_PID,     \* the shell variable LOCAL_PID; 0 stands for unset/empty
    localProc,     \* child started by `npm start &`: none / running / exited / killed
    container,     \* container devops-portfolio-app: "none" or "running"
    stack,         \* docker-compose stack: "down" or "up"
    out,           \* lines printed so far
    ran,           \* commands executed so far, in order, each with its exit status
    missing_tools, \* the array missing_tools built by check_prerequisites
    exitCode,      \* exit status of the process, -1 while it is running
    interrupted,   \* an interrupt ended the main body
    cleanups,      \* number of times cleanup has been executed
    launched,      \* what this invocation started: subset of {"local","docker","compose"}
    signalled,     \* process identifiers that a kill of this invocation was sent to
    healthCheck,   \* healthcheck.js: the probe process and its request
    peer,          \* healthcheck.js: what listens on localhost:3000
    env,           \* app.js: process.env, the public directory, the host name
    req,           \* app.js: the request being handled
    res,           \* app.js: the response built for it
    stage          \* app.js: the middleware the request is at

shellVars == <<argv, present, pc, todo, LOCAL_PID, localProc, container, stack, out,
               ran, missing_tools, exitCode, interrupted, cleanups, launched,
               signalled>>

probeVars == <<healthCheck, peer>>

appVars == <<env, req, res, stage>>

nodeVars == <<probeVars, appVars>>

vars == <<shellVars, nodeVars>>

hostVars == <<LOCAL_PID, localProc, container, stack, launched, signalled>>

(* ------------------------------ bounds -------------------------------- *)

\* exit statuses a failing external command may return: 1..MaxStatus
MaxStatus == 2

\* process identifiers the shell may get from `npm start &`: 1..MaxPid
MaxPid == 2

(* ----------------------------- vocabulary ------------------------------ *)

Tools == {"node", "npm", "docker", "docker-compose"}

\* the catalogue printed by show_help
Catalogue == {"setup", "start-local", "start-docker", "start-compose",
              "test", "build", "clean", "full", "help"}

\* first arguments tried: every catalogue entry, the two help flags, the
\* empty string and two words the dispatch does not know
ArgWords == Catalogue \cup {"--help", "-h", "", "frobnicate", "stop"}

Argvs == {<<>>} \cup {<<a>> : a \in ArgWords}

\* values passed to start_app when it is exercised on its own
ModeInputs == {"local", "docker", "compose", "container", "bogus", ""}

FailStatus == 1..MaxStatus

Pids == 1..MaxPid

Range(s) == {s[i] : i \in 1..Len(s)}

Call(fn, arg) == [fn |-> fn, arg |-> arg]

\* an entry of ran: the command and the status it ended with
Ran(cmd, st) == [cmd |-> cmd, st |-> st]

(* ------------------------ the shell's machinery ------------------------ *)

\* the script without line 6: no command failure ends it
errexit_unset == FALSE

\* line 6: set -e
errexit == TRUE

\* status of a child that the terminal's Ctrl+C killed (128 + SIGINT)
SIGINT_STATUS == 128 + 2

Status == (0..MaxStatus) \cup {SIGINT_STATUS}

\* statuses an external command can end with: a tool that is not on PATH
\* is "command not found", which is a failure
Exec(tool) == IF tool \in Tools /\ tool \notin present THEN FailStatus ELSE Status

\* the shell stops at a command that ended with status s
Stops(s) == s = SIGINT_STATUS \/ (s # 0 /\ errexit)

\* the call returned and the script goes on with `rest`; after the last line
\* of the script the shell exits with the status of the last command
Advance(rest) ==
    /\ todo' = rest
    /\ pc' = IF rest = <<>> THEN "trap" ELSE "main"
    /\ exitCode' = IF rest = <<>> THEN 0 ELSE exitCode
    /\ UNCHANGED interrupted

\* `exit n`, or set -e leaving the script with the failing command's status
ExitWith(n) ==
    /\ pc' = "trap"
    /\ exitCode' = n
    /\ UNCHANGED <<todo, interrupted>>

\* SIGINT ends the main body; bash runs the EXIT trap and dies of the signal
Killed ==
    /\ pc' = "trap"
    /\ exitCode' = SIGINT_STATUS
    /\ interrupted' = TRUE
    /\ UNCHANGED todo

\* a command of the script ended with status s
Return(s, rest) ==
    IF s = SIGINT_STATUS THEN Killed
    ELSE IF s # 0 /\ errexit THEN ExitWith(s)
    ELSE Advance(rest)

AtCall(fn) == pc = "main" /\ todo # <<>> /\ Head(todo).fn = fn

(* --------------------------- case dispatch ----------------------------- *)

\* ${1-help} in place of ${1:-help}: only an absent argument selects help
Command_unset_only(a) == IF Len(a) = 0 THEN "help" ELSE a[1]

\* line 214: ${1:-help}: an absent or empty first argument selects help
Command(a) == IF Len(a) = 0 \/ a[1] = "" THEN "help" ELSE a[1]

CaseSetup ==
    << Call("check_prerequisites", ""), Call("install_dependencies", ""),
       Call("run_tests", ""), Call("print_success", "Setup completed!") >>

\* the start-local branch starting the application a second time
CaseStartLocal_started_twice ==
    << Call("check_prerequisites", ""), Call("start_app", "local"),
       Call("start_app", "local"), Call("test_app", ""),
       Call("print_success", "Application is running locally at http://localhost:3000"),
       Call("echo", "Press Ctrl+C to stop..."), Call("wait", "") >>

CaseStartLocal ==
    << Call("check_prerequisites", ""), Call("start_app", "local"),
       Call("test_app", ""),
       Call("print_success", "Application is running locally at http://localhost:3000"),
       Call("echo", "Press Ctrl+C to stop..."), Call("wait", "") >>

CaseStartDocker ==
    << Call("check_prerequisites", ""), Call("build_docker", ""),
       Call("start_app", "docker"), Call("test_app", ""),
       Call("print_success", "Application is running with Docker at http://localhost:3000"),
       Call("echo", "To stop: docker stop devops-portfolio-app") >>

CaseStartCompose ==
    << Call("check_prerequisites", ""), Call("start_app", "compose"),
       Call("test_app", ""),
       Call("print_success",
            "Application is running with Docker Compose at http://localhost:3000"),
       Call("echo", "To stop: docker-compose down") >>

\* the test branch running run_tests a second time
CaseTest_tests_twice ==
    << Call("check_prerequisites", ""), Call("install_dependencies", ""),
       Call("run_tests", ""), Call("run_tests", "") >>

CaseTest ==
    << Call("check_prerequisites", ""), Call("install_dependencies", ""),
       Call("run_tests", "") >>

\* the build branch without its check_prerequisites line
CaseBuild_unchecked == << Call("build_docker", "") >>

CaseBuild == << Call("check_prerequisites", ""), Call("build_docker", "") >>

CaseClean == << Call("cleanup", "") >>

CaseFull == << Call("run_full_pipeline", "") >>

\* the help branch falling into the exit 1 of the default branch
CaseHelp_exit1 == << Call("show_help", ""), Call("exit", "1") >>

CaseHelp == << Call("show_help", "") >>

CaseDefault(a) ==
    << Call("print_error", "Unknown command: " \o a), Call("show_help", ""),
       Call("exit", "1") >>

\* lines 214-267
Program(a) ==
    LET c == Command(a) IN
    CASE c = "setup"         -> CaseSetup
      [] c = "start-local"   -> CaseStartLocal
      [] c = "start-docker"  -> CaseStartDocker
      [] c = "start-compose" -> CaseStartCompose
      [] c = "test"          -> CaseTest
      [] c = "build"         -> CaseBuild
      [] c = "clean"         -> CaseClean
      [] c = "full"          -> CaseFull
      [] c \in {"help", "--help", "-h"} -> CaseHelp
      [] OTHER               -> CaseDefault(c)

\* run_full_pipeline with build_docker called before run_tests
FullPipelineBody_build_first ==
    << Call("print_status", "Running full DevOps pipeline..."),
       Call("check_prerequisites", ""), Call("install_dependencies", ""),
       Call("build_docker", ""), Call("run_tests", ""),
       Call("start_app", "compose"), Call("test_app", ""),
       Call("print_success", "Full pipeline completed successfully!"),
       Call("echo", ""),
       Call("echo", "Application is running at: http://localhost:3000"),
       Call("echo", "Health check: http://localhost:3000/health"),
       Call("echo", "API info: http://localhost:3000/api/info"),
       Call("echo", ""),
       Call("echo", "To stop the application, run: $0 clean") >>

\* lines 192-207: the body of run_full_pipeline
FullPipelineBody ==
    << Call("print_status", "Running full DevOps pipeline..."),
       Call("check_prerequisites", ""), Call("install_dependencies", ""),
       Call("run_tests", ""), Call("build_docker", ""),
       Call("start_app", "compose"), Call("test_app", ""),
       Call("print_success", "Full pipeline completed successfully!"),
       Call("echo", ""),
       Call("echo", "Application is running at: http://localhost:3000"),
       Call("echo", "Health check: http://localhost:3000/health"),
       Call("echo", "API info: http://localhost:3000/api/info"),
       Call("echo", ""),
       Call("echo", "To stop the application, run: $0 clean") >>

(* --------------------------- the functions ----------------------------- *)

\* lines 43-57: the four tests, in the order they are made
ToolOrder == << "node", "npm", "docker", "docker-compose" >>

\* check_prerequisites stopping at the first tool it does not find
MissingTools_first_only(have) ==
    LET all == SelectSeq(ToolOrder, LAMBDA t : t \notin have)
    IN IF Len(all) = 0 THEN << >> ELSE << all[1] >>

\* lines 41-57: the array missing_tools for a PATH that resolves `have`
MissingTools(have) == SelectSeq(ToolOrder, LAMBDA t : t \notin have)

\* ${missing_tools[*]}: the elements joined by single spaces
RECURSIVE Joined(_)
Joined(s) ==
    IF Len(s) = 0 THEN ""
    ELSE IF Len(s) = 1 THEN s[1]
    ELSE s[1] \o " " \o Joined(Tail(s))

\* lines 38-66
check_prerequisites ==
    /\ AtCall("check_prerequisites")
    /\ UNCHANGED nodeVars
    /\ LET missing == MissingTools(present) IN
       /\ missing_tools' = missing
       /\ ran' = Append(ran, Ran("check_prerequisites", IF Len(missing) # 0 THEN 1 ELSE 0))
       /\ IF Len(missing) # 0
          THEN /\ out' = out \o << "[INFO] Checking prerequisites...",
                                   "[ERROR] Missing required tools: " \o Joined(missing),
                                   "Please install the missing tools and run this script again." >>
               /\ ExitWith(1)
          ELSE /\ out' = out \o << "[INFO] Checking prerequisites...",
                                   "[SUCCESS] All prerequisites are met!" >>
               /\ Advance(Tail(todo))
    /\ UNCHANGED <<argv, present, hostVars, cleanups>>

\* lines 69-73
install_dependencies ==
    /\ AtCall("install_dependencies")
    /\ UNCHANGED nodeVars
    /\ \E s \in Exec("npm") :
         /\ ran' = Append(ran, Ran("npm install", s))
         /\ out' = out \o << "[INFO] Installing Node.js dependencies..." >>
                       \o (IF Stops(s) THEN << >>
                           ELSE << "[SUCCESS] Dependencies installed successfully!" >>)
         /\ Return(s, Tail(todo))
    /\ UNCHANGED <<argv, present, hostVars, missing_tools, cleanups>>

\* run_tests with `npm run lint || true`: the unit tests run whatever lint says
run_tests_lint_ignored ==
    /\ AtCall("run_tests")
    /\ UNCHANGED nodeVars
    /\ \E lint \in Exec("npm") \ {SIGINT_STATUS}, unit \in Exec("npm") :
         /\ ran' = ran \o << Ran("npm run lint", lint), Ran("npm test", unit) >>
         /\ out' = out \o << "[INFO] Running tests..." >>
                       \o (IF Stops(unit) THEN << >>
                           ELSE << "[SUCCESS] All tests passed!" >>)
         /\ Return(unit, Tail(todo))
    /\ UNCHANGED <<argv, present, hostVars, missing_tools, cleanups>>

\* lines 76-81
run_tests ==
    /\ AtCall("run_tests")
    /\ UNCHANGED nodeVars
    /\ \E lint \in Exec("npm"), unit \in Exec("npm") :
         LET unitRuns == ~Stops(lint)
             passed   == unitRuns /\ ~Stops(unit)
         IN
         /\ ran' = ran \o << Ran("npm run lint", lint) >>
                       \o (IF unitRuns THEN << Ran("npm test", unit) >> ELSE << >>)
         /\ out' = out \o << "[INFO] Running tests..." >>
                       \o (IF passed THEN << "[SUCCESS] All tests passed!" >> ELSE << >>)
         /\ IF unitRuns
            THEN Return(unit, Tail(todo))
            ELSE Return(lint, Tail(todo))
    /\ UNCHANGED <<argv, present, hostVars, missing_tools, cleanups>>

\* lines 84-88
build_docker ==
    /\ AtCall("build_docker")
    /\ UNCHANGED nodeVars
    /\ \E s \in Exec("docker") :
         /\ ran' = Append(ran, Ran("docker build", s))
         /\ out' = out \o << "[INFO] Building Docker image..." >>
                       \o (IF Stops(s) THEN << >>
                           ELSE << "[SUCCESS] Docker image built successfully!" >>)
         /\ Return(s, Tail(todo))
    /\ UNCHANGED <<argv, present, hostVars, missing_tools, cleanups>>

\* lines 97-99, 103-104, 108-109: the fixed delay after a start; Ctrl+C may
\* arrive while the shell sleeps
Sleep(rest) == \E z \in {0, SIGINT_STATUS} : Return(z, rest)

\* lines 95-100: npm start &; LOCAL_PID=$!; sleep 3
start_local ==
    /\ out' = Append(out, "[INFO] Starting application locally...")
    /\ ran' = Append(ran, Ran("npm start &", 0))
    /\ \E p \in Pids : LOCAL_PID' = p
    /\ localProc' = "running"
    /\ launched' = launched \cup {"local"}
    /\ Sleep(Tail(todo))
    /\ UNCHANGED <<container, stack, signalled>>

\* lines 101-105: docker run -d ... --name devops-portfolio-app; sleep 3
start_docker ==
    /\ out' = Append(out, "[INFO] Starting application with Docker...")
    /\ \E s \in Exec("docker") :
         \* the name devops-portfolio-app is taken: docker run fails
         /\ container # "none" => s # 0
         /\ ran' = Append(ran, Ran("docker run", s))
         /\ container' = IF s = 0 THEN "running" ELSE container
         /\ launched' = IF s = 0 THEN launched \cup {"docker"} ELSE launched
         /\ IF Stops(s) THEN Return(s, Tail(todo)) ELSE Sleep(Tail(todo))
    /\ UNCHANGED <<LOCAL_PID, localProc, stack, signalled>>

\* lines 106-110: docker-compose up -d; sleep 5
start_compose ==
    /\ out' = Append(out, "[INFO] Starting application with Docker Compose...")
    /\ \E s \in Exec("docker-compose") :
         /\ ran' = Append(ran, Ran("docker-compose up", s))
         /\ stack' = IF s = 0 THEN "up" ELSE stack
         /\ launched' = IF s = 0 THEN launched \cup {"compose"} ELSE launched
         /\ IF Stops(s) THEN Return(s, Tail(todo)) ELSE Sleep(Tail(todo))
    /\ UNCHANGED <<LOCAL_PID, localProc, container, signalled>>

\* lines 111-114: any other mode
start_invalid(mode) ==
    /\ out' = Append(out, "[ERROR] Invalid mode: " \o mode)
    /\ ExitWith(1)
    /\ UNCHANGED <<ran, hostVars>>

\* start_app whose case ends in a catch-all local branch
start_app_default_local(mode) ==
    IF mode = "docker" THEN start_docker
    ELSE IF mode = "compose" THEN start_compose
    ELSE start_local

\* lines 91-116: start_app called with $1 = mode
start_app(mode) ==
    IF mode = "local" THEN start_local
    ELSE IF mode = "docker" THEN start_docker
    ELSE IF mode = "compose" THEN start_compose
    ELSE start_invalid(mode)

StartApp ==
    /\ AtCall("start_app")
    /\ UNCHANGED nodeVars
    /\ start_app(Head(todo).arg)
    /\ UNCHANGED <<argv, present, missing_tools, cleanups>>

\* what one probe of test_app prints for the status of its curl
ProbeLine(st, okLine, failLine) ==
    IF st = 0 THEN << okLine >>
    ELSE IF st = SIGINT_STATUS THEN << >>
    ELSE << failLine >>

\* test_app without the `return 1` of lines 127, 135 and 143: a failed probe
\* is reported and the next probe is made all the same
test_app_without_return ==
    /\ AtCall("test_app")
    /\ UNCHANGED nodeVars
    /\ \E h \in Status, m \in Status, a \in Status :
         LET mRuns == h # SIGINT_STATUS
             aRuns == mRuns /\ m # SIGINT_STATUS
             sig   == \/ h = SIGINT_STATUS
                      \/ mRuns /\ m = SIGINT_STATUS
                      \/ aRuns /\ a = SIGINT_STATUS
         IN
         /\ ran' = ran \o << Ran("curl /health", h) >>
                       \o (IF mRuns THEN << Ran("curl /", m) >> ELSE << >>)
                       \o (IF aRuns THEN << Ran("curl /api/info", a) >> ELSE << >>)
         /\ out' = out \o << "[INFO] Testing application endpoints..." >>
                \o ProbeLine(h, "[SUCCESS] Health endpoint is working!",
                                "[ERROR] Health endpoint failed!")
                \o (IF mRuns THEN ProbeLine(m, "[SUCCESS] Main page is accessible!",
                                               "[ERROR] Main page failed!")
                    ELSE << >>)
                \o (IF aRuns THEN ProbeLine(a, "[SUCCESS] API endpoint is working!",
                                               "[ERROR] API endpoint failed!")
                    ELSE << >>)
                \o (IF sig THEN << >>
                    ELSE << "[SUCCESS] All endpoints are working correctly!" >>)
         /\ IF sig THEN Killed ELSE Advance(Tail(todo))
    /\ UNCHANGED <<argv, present, hostVars, missing_tools, cleanups>>

\* lines 119-147
test_app ==
    /\ AtCall("test_app")
    /\ UNCHANGED nodeVars
    /\ \E h \in Status, m \in Status, a \in Status :
         LET mRuns == h = 0
             aRuns == mRuns /\ m = 0
             allOk == aRuns /\ a = 0
             sig   == \/ h = SIGINT_STATUS
                      \/ mRuns /\ m = SIGINT_STATUS
                      \/ aRuns /\ a = SIGINT_STATUS
         IN
         /\ ran' = ran \o << Ran("curl /health", h) >>
                       \o (IF mRuns THEN << Ran("curl /", m) >> ELSE << >>)
                       \o (IF aRuns THEN << Ran("curl /api/info", a) >> ELSE << >>)
         /\ out' = out \o << "[INFO] Testing application endpoints..." >>
                \o ProbeLine(h, "[SUCCESS] Health endpoint is working!",
                                "[ERROR] Health endpoint failed!")
                \o (IF mRuns THEN ProbeLine(m, "[SUCCESS] Main page is accessible!",
                                               "[ERROR] Main page failed!")
                    ELSE << >>)
                \o (IF aRuns THEN ProbeLine(a, "[SUCCESS] API endpoint is working!",
                                               "[ERROR] API endpoint failed!")
                    ELSE << >>)
                \o (IF allOk THEN << "[SUCCESS] All endpoints are working correctly!" >>
                    ELSE << >>)
         /\ IF sig THEN Killed
            ELSE IF allOk THEN Advance(Tail(todo))
            ELSE Return(1, Tail(todo))
    /\ UNCHANGED <<argv, present, hostVars, missing_tools, cleanups>>

\* cleanup without the `|| true` of lines 155-161: under set -e the first
\* command that fails ends cleanup, before the commands and the message after it
cleanup_without_or_true ==
    \E down \in BOOLEAN, stop \in BOOLEAN, rm \in BOOLEAN :
        LET killOk   == LOCAL_PID = 0 \/ localProc = "running"
            stopRuns == killOk /\ down
            rmRuns   == stopRuns /\ stop
        IN
        /\ down => "docker-compose" \in present
        /\ (stop \/ rm) => "docker" \in present
        /\ stop => container # "none"
        /\ rm => (container = "stopped" \/ (stop /\ container = "running"))
        /\ container' = IF rmRuns /\ rm THEN "none"
                        ELSE IF stopRuns /\ stop THEN "stopped" ELSE container
        /\ stack' = IF killOk /\ down THEN "down" ELSE stack
        /\ localProc' = IF LOCAL_PID # 0 /\ localProc = "running" THEN "killed"
                        ELSE localProc
        /\ signalled' = IF LOCAL_PID # 0 THEN signalled \cup {LOCAL_PID} ELSE signalled
        /\ ran' = ran \o (IF LOCAL_PID # 0
                          THEN << Ran("kill", IF localProc = "running" THEN 0 ELSE 1) >>
                          ELSE << >>)
                      \o (IF killOk
                          THEN << Ran("docker-compose down", IF down THEN 0 ELSE 1) >>
                          ELSE << >>)
                      \o (IF stopRuns
                          THEN << Ran("docker stop", IF stop THEN 0 ELSE 1) >>
                          ELSE << >>)
                      \o (IF rmRuns
                          THEN << Ran("docker rm", IF rm THEN 0 ELSE 1) >>
                          ELSE << >>)
        /\ out' = out \o << "[INFO] Cleaning up..." >>
                      \o (IF rmRuns /\ rm THEN << "[SUCCESS] Cleanup completed!" >>
                          ELSE << >>)
        /\ cleanups' = cleanups + 1
        /\ UNCHANGED <<LOCAL_PID, launched>>

\* lines 150-164: every command of cleanup is followed by `|| true`, so its
\* failures are swallowed; down/stop/rm say whether each docker command worked
cleanup ==
    \E down \in BOOLEAN, stop \in BOOLEAN, rm \in BOOLEAN, alien \in BOOLEAN :
        \* a LOCAL_PID that names no child of this shell names a process of
        \* somebody else, which kill reaches, or none
        /\ alien => (LOCAL_PID # 0 /\ localProc = "none")
        /\ down => "docker-compose" \in present
        /\ (stop \/ rm) => "docker" \in present
        \* docker stop finds a container; docker rm finds a stopped one
        /\ stop => container # "none"
        /\ rm => (container = "stopped" \/ (stop /\ container = "running"))
        /\ container' = IF rm THEN "none"
                        ELSE IF stop THEN "stopped" ELSE container
        /\ stack' = IF down THEN "down" ELSE stack
        /\ localProc' = IF LOCAL_PID # 0 /\ localProc = "running" THEN "killed"
                        ELSE localProc
        /\ signalled' = IF LOCAL_PID # 0 THEN signalled \cup {LOCAL_PID} ELSE signalled
        /\ ran' = ran \o (IF LOCAL_PID # 0
                          THEN << Ran("kill", IF localProc = "running" \/ alien
                                              THEN 0 ELSE 1) >>
                          ELSE << >>)
                      \o << Ran("docker-compose down", IF down THEN 0 ELSE 1),
                            Ran("docker stop", IF stop THEN 0 ELSE 1),
                            Ran("docker rm", IF rm THEN 0 ELSE 1) >>
        /\ out' = out \o << "[INFO] Cleaning up...", "[SUCCESS] Cleanup completed!" >>
        /\ cleanups' = cleanups + 1
        /\ UNCHANGED <<LOCAL_PID, launched>>

\* line 254: cleanup called by the clean branch
CleanupCall ==
    /\ AtCall("cleanup")
    /\ UNCHANGED nodeVars
    /\ cleanup
    /\ Advance(Tail(todo))
    /\ UNCHANGED <<argv, present, missing_tools>>

\* lines 167-188
show_help ==
    /\ AtCall("show_help")
    /\ UNCHANGED nodeVars
    /\ out' = out \o
         << "DevOps Portfolio Project - Setup and Run Script", "",
            "Usage: $0 [COMMAND]", "", "Commands:",
            "  setup          - Install dependencies and run tests",
            "  start-local    - Start application locally with Node.js",
            "  start-docker   - Start application with Docker",
            "  start-compose  - Start application with Docker Compose",
            "  test           - Run all tests (lint + unit tests)",
            "  build          - Build Docker image",
            "  clean          - Clean up running containers and processes",
            "  full           - Run full pipeline (setup + build + test + start)",
            "  help           - Show this help message", "",
            "Examples:",
            "  $0 setup          # Install dependencies and run tests",
            "  $0 start-local    # Start the app locally",
            "  $0 full           # Complete setup and start", "" >>
    /\ Advance(Tail(todo))
    /\ UNCHANGED <<argv, present, hostVars, ran, missing_tools, cleanups>>

\* lines 16-30: the tag each print function puts before its argument
Tag(fn) ==
    CASE fn = "print_status"  -> "[INFO] "
      [] fn = "print_success" -> "[SUCCESS] "
      [] fn = "print_warning" -> "[WARNING] "
      [] fn = "print_error"   -> "[ERROR] "
      [] OTHER                -> ""

\* a print_* or echo line of a case branch or of run_full_pipeline
PrintLine ==
    /\ pc = "main" /\ todo # <<>>
    /\ UNCHANGED nodeVars
    /\ Head(todo).fn \in {"print_status", "print_success", "print_error", "echo"}
    /\ out' = Append(out, Tag(Head(todo).fn) \o Head(todo).arg)
    /\ Advance(Tail(todo))
    /\ UNCHANGED <<argv, present, hostVars, ran, missing_tools, cleanups>>

\* line 265: exit 1
ExitOne ==
    /\ AtCall("exit")
    /\ UNCHANGED nodeVars
    /\ ExitWith(1)
    /\ UNCHANGED <<argv, present, hostVars, out, ran, missing_tools, cleanups>>

\* line 227: wait returns once the background child has ended
wait ==
    /\ AtCall("wait")
    /\ UNCHANGED nodeVars
    /\ localProc' = IF localProc = "running" THEN "exited" ELSE localProc
    /\ ran' = Append(ran, Ran("wait", 0))
    /\ Advance(Tail(todo))
    /\ UNCHANGED <<argv, present, LOCAL_PID, container, stack, launched, signalled,
                   out, missing_tools, cleanups>>

\* line 257: run_full_pipeline is entered; its lines run one by one
run_full_pipeline ==
    /\ AtCall("run_full_pipeline")
    /\ UNCHANGED nodeVars
    /\ todo' = FullPipelineBody \o Tail(todo)
    /\ UNCHANGED <<argv, present, pc, hostVars, out, ran, missing_tools, exitCode,
                   interrupted, cleanups>>

(* --------------------------- the environment --------------------------- *)

\* the operator presses Ctrl+C between two calls, or while wait blocks
Interrupt ==
    /\ pc = "main"
    /\ UNCHANGED nodeVars
    /\ Killed
    /\ UNCHANGED <<argv, present, hostVars, out, ran, missing_tools, cleanups>>

\* the background child ends on its own
ChildExits ==
    /\ pc \in {"main", "trap"}
    /\ UNCHANGED nodeVars
    /\ localProc = "running"
    /\ localProc' = "exited"
    /\ UNCHANGED <<argv, present, pc, todo, LOCAL_PID, container, stack, out, ran,
                   missing_tools, exitCode, interrupted, cleanups, launched,
                   signalled>>

(* ------------------------------ the exit ------------------------------- *)

\* the script without line 211: nothing runs when the shell leaves
EXIT_trap_unset == UNCHANGED <<hostVars, out, ran, cleanups>>

\* line 211: trap cleanup EXIT
EXIT_trap == cleanup

\* the shell leaves: the EXIT trap runs, then the process ends with exitCode
Exit ==
    /\ pc = "trap"
    /\ UNCHANGED nodeVars
    /\ EXIT_trap
    /\ pc' = "done"
    /\ UNCHANGED <<argv, present, todo, missing_tools, exitCode, interrupted>>

(* --------------------------- healthcheck.js ---------------------------- *)

\* line 274: timeout: 2000, the socket's idle timeout in milliseconds
TimeoutMs == 2000

\* the clock of the probe advances in steps of half the timeout
TickMs == TimeoutMs \div 2

\* the clock is followed for MaxTicks steps
MaxTicks == 4

\* a peer that answers does so after 0..MaxLatencyTicks steps
MaxLatencyTicks == 3

\* status codes an answering peer may send
StatusCodes == {200, 204, 301, 404, 500, 503}

\* what may listen on localhost:3000: nothing (the connection is refused),
\* a peer that accepts the connection and never answers, or a peer that
\* answers with a status code after a latency
Peers ==
    {[kind |-> k, status |-> 0, latency |-> 0] : k \in {"refuses", "silent"}}
    \cup {[kind |-> "answers", status |-> c, latency |-> l * TickMs] :
             c \in StatusCodes, l \in 0..MaxLatencyTicks}

\* the probe process before line 291
ProbeFresh ==
    [pc |-> "start", clock |-> 0, timedOut |-> FALSE, exitCode |-> -1, log |-> << >>]

\* no probe is run
ProbeIdle ==
    /\ healthCheck = ProbeFresh
    /\ peer = [kind |-> "refuses", status |-> 0, latency |-> 0]

\* process.exit(n) after printing line
ProbeExit(line, n) ==
    healthCheck' = [healthCheck EXCEPT !.pc = "exited", !.exitCode = n,
                                       !.log = Append(@, line)]

\* line 291: healthCheck.end() sends the request
HealthCheckEnd ==
    /\ healthCheck.pc = "start"
    /\ healthCheck' = [healthCheck EXCEPT !.pc = "waiting"]
    /\ UNCHANGED <<peer, appVars, shellVars>>

\* lines 277-284: the response callback
HealthCheckResponse ==
    /\ healthCheck.pc = "waiting"
    /\ peer.kind = "answers"
    /\ healthCheck.clock >= peer.latency
    /\ ProbeExit("HEALTHCHECK STATUS: " \o ToString(peer.status),
                 IF peer.status = 200 THEN 0 ELSE 1)
    /\ UNCHANGED <<peer, appVars, shellVars>>

\* lines 286-289: the 'error' listener
HealthCheckError ==
    /\ healthCheck.pc = "waiting"
    /\ peer.kind = "refuses"
    /\ ProbeExit("HEALTHCHECK FAILED", 1)
    /\ UNCHANGED <<peer, appVars, shellVars>>

\* line 274: the socket has been idle for TimeoutMs and the request emits
\* 'timeout'; lines 277-291 register no listener for it, so the request is
\* neither destroyed nor the process ended
HealthCheckTimeout ==
    /\ healthCheck.pc = "waiting"
    /\ ~healthCheck.timedOut
    /\ healthCheck.clock >= TimeoutMs
    /\ healthCheck' = [healthCheck EXCEPT !.timedOut = TRUE]
    /\ UNCHANGED <<peer, appVars, shellVars>>

\* time passes while the request is pending; an answer comes at its latency
\* and the 'timeout' event at TimeoutMs
Tick ==
    /\ healthCheck.pc = "waiting"
    /\ peer.kind # "refuses"
    /\ healthCheck.clock < MaxTicks * TickMs
    /\ ~(peer.kind = "answers" /\ healthCheck.clock >= peer.latency)
    /\ ~(healthCheck.clock >= TimeoutMs /\ ~healthCheck.timedOut)
    /\ healthCheck' = [healthCheck EXCEPT !.clock = @ + TickMs]
    /\ UNCHANGED <<peer, appVars, shellVars>>

(* ------------------------------- app.js -------------------------------- *)

\* Date.now() at the time of a request: 0..MaxNow
MaxNow == 1

\* an environment variable is unset, empty or set to a value
Unset == << >>

EnvValues(v) == {Unset, <<"">>, <<v>>}

\* the process environment app.js reads, the files of ./public and the
\* host name
Envs ==
    [NODE_ENV : EnvValues("production"),
     npm_package_version : EnvValues("2.3.4"),
     public : SUBSET {"index.html"},
     hostname : {"web-1"}]

Methods == {"GET", "POST", "DELETE"}

Paths == {"/", "/health", "/api/info", "/index.html", "/nonexistent"}

\* the body of a request: none, a JSON document or a broken JSON document
\* (both sent as application/json), or text of another content type
Bodies == {"none", "json", "malformed", "text"}

Requests == [method : Methods, path : Paths, body : Bodies]

NoReq == [method |-> "", path |-> "", body |-> "none"]

NoRes == [status |-> 0, type |-> "", body |-> << >>, headers |-> {}]

\* no request is handled
AppIdle ==
    /\ env = [NODE_ENV |-> Unset, npm_package_version |-> Unset,
              public |-> {"index.html"}, hostname |-> "web-1"]
    /\ req = NoReq
    /\ res = NoRes
    /\ stage = "idle"

\* process.env.X || d: an unset or empty variable gives d
OrDefault(v, d) == IF v = Unset \/ v = <<"">> THEN d ELSE v[1]

\* new Date(t).toISOString() for the instants 0..9 ms of the epoch
ToISOString(t) == "1970-01-01T00:00:00.00" \o ToString(t) \o "Z"

\* res.status(n).json(body)
Json(n, body) == res' = [res EXCEPT !.status = n, !.type = "json", !.body = body]

\* the file express.static('public') finds for a path: a directory path
\* gives its index.html
StaticFile(path) ==
    CASE path = "/"            -> "index.html"
      [] path = "/index.html"  -> "index.html"
      [] path = "/health"      -> "health"
      [] path = "/api/info"    -> "api/info"
      [] path = "/nonexistent" -> "nonexistent"

\* app.get(path, ...) matches the request
Routed(path) == req.method = "GET" /\ req.path = path

\* a request arrives; the server handles one request after the other
Receive ==
    /\ stage \in {"idle", "sent"}
    /\ req' \in Requests
    /\ res' = NoRes
    /\ stage' = "helmet"
    /\ UNCHANGED <<env, probeVars, shellVars>>

\* line 9: app.use(helmet()) sets the security headers and passes on
helmet ==
    /\ stage = "helmet"
    /\ res' = [res EXCEPT !.headers = {"X-Content-Type-Options", "X-Frame-Options",
                                       "Strict-Transport-Security"}]
    /\ stage' = "static"
    /\ UNCHANGED <<env, req, probeVars, shellVars>>

\* line 12: express.static('public') answers a GET for an existing file
\* and passes every other request on
serveStatic ==
    /\ stage = "static"
    /\ IF req.method = "GET" /\ StaticFile(req.path) \in env.public
       THEN /\ res' = [res EXCEPT !.status = 200, !.type = "file",
                                  !.body = <<StaticFile(req.path)>>]
            /\ stage' = "sent"
       ELSE /\ stage' = "json"
            /\ UNCHANGED res
    /\ UNCHANGED <<env, req, probeVars, shellVars>>

\* line 13: express.json() parses a body sent as application/json, whatever
\* the method and the path; a body that does not parse goes to the error
\* handler with next(err)
jsonParser ==
    /\ stage = "json"
    /\ stage' = IF req.body = "malformed" THEN "error" ELSE "router"
    /\ UNCHANGED <<env, req, res, probeVars, shellVars>>

\* lines 16-18: res.sendFile(public/index.html); a missing file goes to the
\* error handler
getRoot ==
    /\ stage = "router"
    /\ Routed("/")
    /\ IF "index.html" \in env.public
       THEN /\ res' = [res EXCEPT !.status = 200, !.type = "file",
                                  !.body = <<"index.html">>]
            /\ stage' = "sent"
       ELSE /\ stage' = "error"
            /\ UNCHANGED res
    /\ UNCHANGED <<env, req, probeVars, shellVars>>

\* lines 20-26
getHealth ==
    /\ stage = "router"
    /\ Routed("/health")
    /\ \E now \in 0..MaxNow :
         Json(200, [status |-> "healthy",
                    timestamp |-> ToISOString(now),
                    version |-> OrDefault(env.npm_package_version, "1.0.0")])
    /\ stage' = "sent"
    /\ UNCHANGED <<env, req, probeVars, shellVars>>

\* lines 28-35
getApiInfo ==
    /\ stage = "router"
    /\ Routed("/api/info")
    /\ Json(200, [message |-> "DevOps Portfolio Application",
                  environment |-> OrDefault(env.NODE_ENV, "development"),
                  version |-> OrDefault(env.npm_package_version, "1.0.0"),
                  hostname |-> env.hostname])
    /\ stage' = "sent"
    /\ UNCHANGED <<env, req, probeVars, shellVars>>

\* lines 38-40: the middleware after the routes answers what none matched
notFound ==
    /\ stage = "router"
    /\ ~(Routed("/") \/ Routed("/health") \/ Routed("/api/info"))
    /\ Json(404, [error |-> "Route not found"])
    /\ stage' = "sent"
    /\ UNCHANGED <<env, req, probeVars, shellVars>>

\* lines 42-45: the error-handling middleware
errorHandler ==
    /\ stage = "error"
    /\ Json(500, [error |-> "Something went wrong!"])
    /\ stage' = "sent"
    /\ UNCHANGED <<env, req, probeVars, shellVars>>

(* -------------------------- the specifications ------------------------- *)

Fresh ==
    /\ present \in SUBSET Tools
    /\ pc = "main"
    /\ LOCAL_PID = 0
    /\ localProc = "none"
    /\ container \in {"none", "running", "stopped"}
    /\ stack \in {"down", "up"}
    /\ out = << >>
    /\ ran = << >>
    /\ missing_tools = << >>
    /\ exitCode = -1
    /\ interrupted = FALSE
    /\ cleanups = 0
    /\ launched = {}
    /\ signalled = {}
    /\ ProbeIdle
    /\ AppIdle

\* one invocation of run.sh
Init ==
    /\ argv \in Argvs
    /\ todo = Program(argv)
    /\ Fresh

Next ==
    \/ check_prerequisites
    \/ install_dependencies
    \/ run_tests
    \/ build_docker
    \/ StartApp
    \/ test_app
    \/ CleanupCall
    \/ show_help
    \/ PrintLine
    \/ ExitOne
    \/ wait
    \/ run_full_pipeline
    \/ Interrupt
    \/ ChildExits
    \/ Exit

Spec == Init /\ [][Next]_vars

\* start_app on its own: run.sh reduced to `start_app "$1"` under the same
\* set -e and EXIT trap
InitStart ==
    /\ argv \in {<<m>> : m \in ModeInputs}
    /\ todo = << Call("start_app", argv[1]) >>
    /\ Fresh

NextStart ==
    \/ StartApp
    \/ Interrupt
    \/ ChildExits
    \/ Exit

SpecStart == InitStart /\ [][NextStart]_vars

\* one invocation of run.sh in any environment: LOCAL_PID is unset or holds
\* the value the caller exported, which names none of this shell's children
InitEnv ==
    /\ argv \in Argvs
    /\ todo = Program(argv)
    /\ present \in SUBSET Tools
    /\ pc = "main"
    /\ LOCAL_PID \in {0} \cup Pids
    /\ localProc = "none"
    /\ container \in {"none", "running", "stopped"}
    /\ stack \in {"down", "up"}
    /\ out = << >>
    /\ ran = << >>
    /\ missing_tools = << >>
    /\ exitCode = -1
    /\ interrupted = FALSE
    /\ cleanups = 0
    /\ launched = {}
    /\ signalled = {}
    /\ ProbeIdle
    /\ AppIdle

SpecEnv == InitEnv /\ [][Next]_vars

\* no invocation of run.sh is under way
ShellIdle ==
    /\ argv = << >>
    /\ present = {}
    /\ pc = "done"
    /\ todo = << >>
    /\ LOCAL_PID = 0
    /\ localProc = "none"
    /\ container = "none"
    /\ stack = "down"
    /\ out = << >>
    /\ ran = << >>
    /\ missing_tools = << >>
    /\ exitCode = 0
    /\ interrupted = FALSE
    /\ cleanups = 0
    /\ launched = {}
    /\ signalled = {}

\* one run of `node healthcheck.js`
InitHealth ==
    /\ healthCheck = ProbeFresh
    /\ peer \in Peers
    /\ AppIdle
    /\ ShellIdle

NextHealth ==
    \/ HealthCheckEnd
    \/ HealthCheckResponse
    \/ HealthCheckError
    \/ HealthCheckTimeout
    \/ Tick

\* node runs a callback that is due, and time passes
SpecHealth == InitHealth /\ [][NextHealth]_vars /\ WF_vars(NextHealth)

\* the application serving requests
InitApp ==
    /\ env \in Envs
    /\ req = NoReq
    /\ res = NoRes
    /\ stage = "idle"
    /\ ProbeIdle
    /\ ShellIdle

NextApp ==
    \/ Receive
    \/ helmet
    \/ serveStatic
    \/ jsonParser
    \/ getRoot
    \/ getHealth
    \/ getApiInfo
    \/ notFound
    \/ errorHandler

SpecApp == InitApp /\ [][NextApp]_vars

(* ------------------------------ properties ----------------------------- *)

\* the command the dispatch selected
Cmd == Command(argv)

\* first arguments the dispatch has a branch for
Recognized == Catalogue \cup {"--help", "-h"}

\* branches that begin with check_prerequisites
Checked == {"setup", "start-local", "start-docker", "start-compose", "test",
            "build", "full"}

\* the commands that make up the steps check-prerequisites, install, lint,
\* unit tests, build, start and smoke-test
StepCmds == {"check_prerequisites", "npm install", "npm run lint", "npm test",
             "docker build", "npm start &", "docker run", "docker-compose up",
             "curl /health", "curl /", "curl /api/info"}

\* the steps executed so far, without the commands of cleanup
Steps == SelectSeq(ran, LAMBDA r : r.cmd \in StepCmds)

StepNames == [i \in 1..Len(Steps) |-> Steps[i].cmd]

Failed(r) == r.st # 0 /\ r.st # SIGINT_STATUS

NoStepFailed == \A i \in 1..Len(Steps) : ~Failed(Steps[i])

Executed(cmd) == \E i \in 1..Len(ran) : ran[i].cmd = cmd

Printed(line) == \E i \in 1..Len(out) : out[i] = line

Absent == Tools \ present

\* the error line of check_prerequisites for the list it built
MissingReport == "[ERROR] Missing required tools: " \o Joined(missing_tools)

HelpPrinted == Printed("  help           - Show this help message")

\* C1: in every invocation, whatever the command and however it ends (success,
\* failing step, interrupt), cleanup has been executed exactly once when the
\* process has exited.
C1_CleanupExactlyOnce == pc = "done" => cleanups = 1

\* C2: after a start-docker, start-compose or full invocation in which every
\* step succeeded has exited, the container or compose stack it started is
\* still running.
C2_StartedServiceStillRunning ==
    (pc = "done" /\ exitCode = 0 /\ NoStepFailed
        /\ Cmd \in {"start-docker", "start-compose", "full"})
    => /\ "docker" \in launched => container = "running"
       /\ "compose" \in launched => stack = "up"

\* C3: once check_prerequisites has run, the list it built holds exactly the
\* absent tools, each once; it printed the missing-tools line and ended the
\* script with exit status 1 if and only if that list is not empty.
C3_MissingToolsExact ==
    Executed("check_prerequisites") =>
        /\ Range(missing_tools) = Absent
        /\ Len(missing_tools) = Cardinality(Absent)
        /\ (Absent # {}) <=> Printed(MissingReport)
        /\ (Absent # {}) <=> (Steps = << Ran("check_prerequisites", 1) >>)
        /\ Absent # {} => pc \in {"trap", "done"} /\ exitCode = 1
        /\ Absent = {} => /\ Steps[1] = Ran("check_prerequisites", 0)
                          /\ Printed("[SUCCESS] All prerequisites are met!")
                          /\ ~(pc = "trap" /\ Len(Steps) = 1 /\ ~interrupted)

\* witness of C3: npm and docker-compose are absent, and the run ended with
\* both of them, and only them, reported
C3_Witness ==
    /\ pc = "done"
    /\ Absent = {"npm", "docker-compose"}
    /\ missing_tools = << "npm", "docker-compose" >>
    /\ Printed("[ERROR] Missing required tools: npm docker-compose")
    /\ exitCode = 1

\* C4 as stated: for every command of the catalogue, an invocation with at
\* least one absent tool reports a missing-tools list that contains every
\* absent tool (read for invocations that no interrupt cut short).
C4_EveryCommandReportsMissing ==
    (pc = "done" /\ ~interrupted /\ Cmd \in Catalogue /\ Absent # {})
    => /\ Printed(MissingReport)
       /\ Absent \subseteq Range(missing_tools)

\* C4 amended: for every command whose branch calls check_prerequisites, an
\* uninterrupted invocation with at least one absent tool reports a list that
\* contains every absent tool; clean and help report no missing tools.
C4_CheckedCommandsReportMissing ==
    (pc = "done" /\ Cmd \in Catalogue /\ Absent # {})
    => IF Cmd \in Checked
       THEN ~interrupted => /\ Printed(MissingReport)
                            /\ Absent \subseteq Range(missing_tools)
       ELSE /\ ~Executed("check_prerequisites")
            /\ \A i \in 1..Len(out) : out[i] # MissingReport

\* witness of C4: full with node and docker absent reported both
C4_Witness ==
    /\ pc = "done"
    /\ Cmd = "full"
    /\ Absent = {"node", "docker"}
    /\ Printed("[ERROR] Missing required tools: node docker")

\* C5: a step that fails is the last step of the invocation: no later step
\* is executed, the exit code is non-zero and cleanup has run when the
\* process has exited; build with docker absent never runs docker build.
C5_FailedStepAborts ==
    /\ \A i \in 1..Len(Steps) :
          Failed(Steps[i]) =>
              /\ i = Len(Steps)
              /\ pc \in {"trap", "done"}
              /\ exitCode \notin {0, -1}
              /\ pc = "done" => cleanups >= 1
    /\ (Cmd = "build" /\ "docker" \notin present) => ~Executed("docker build")

\* witness of C5: full ran up to the probe of the main page, which failed
C5_Witness ==
    /\ pc = "done"
    /\ Cmd = "full"
    /\ Len(Steps) = 8
    /\ Steps[8].cmd = "curl /"
    /\ Failed(Steps[8])
    /\ ~Executed("curl /api/info")
    /\ exitCode = 1

\* C6: npm test is only ever executed right after an npm run lint that exited
\* zero, and 'All tests passed!' is printed only when lint and then the unit
\* tests both exited zero.
C6_LintBeforeUnitTests ==
    /\ \A i \in 1..Len(ran) :
          ran[i].cmd = "npm test" => i > 1 /\ ran[i - 1] = Ran("npm run lint", 0)
    /\ Printed("[SUCCESS] All tests passed!") =>
          \E i \in 1..(Len(ran) - 1) :
              ran[i] = Ran("npm run lint", 0) /\ ran[i + 1] = Ran("npm test", 0)

\* witness of C6: test ended with lint failed and the unit tests never started
C6_Witness ==
    /\ pc = "done"
    /\ Cmd = "test"
    /\ Steps = << Ran("check_prerequisites", 0), Ran("npm install", 0),
                  Ran("npm run lint", 1) >>
    /\ ~Printed("[SUCCESS] All tests passed!")

\* the order of the steps of full that C7 states, run-tests being lint then
\* unit tests and smoke-test its three probes
FullOrder ==
    << "check_prerequisites", "npm install", "npm run lint", "npm test",
       "docker build", "docker-compose up", "curl /health", "curl /",
       "curl /api/info" >>

\* C7: the steps of full are executed in the order check-prerequisites,
\* install, run-tests, build, start(compose), smoke-test; every step but the
\* last one executed has succeeded; the success line is printed only after all
\* of them succeeded; cleanup has run when the process has exited.
C7_FullPipelineOrder ==
    Cmd = "full" =>
        /\ Len(Steps) <= Len(FullOrder)
        /\ \A i \in 1..Len(Steps) : Steps[i].cmd = FullOrder[i]
        /\ \A i \in 1..(Len(Steps) - 1) : Steps[i].st = 0
        /\ Printed("[SUCCESS] Full pipeline completed successfully!") =>
              Len(Steps) = Len(FullOrder) /\ NoStepFailed
        /\ pc = "done" => cleanups >= 1

\* witness of C7: full ran all its steps, each succeeding, and exited
C7_Witness ==
    /\ pc = "done"
    /\ Cmd = "full"
    /\ StepNames = FullOrder
    /\ NoStepFailed
    /\ exitCode = 0
    /\ cleanups = 1

\* C8 as stated: for every command of the catalogue, an invocation with no
\* tool missing in which every step succeeded (everything before the final
\* wait of start-local has been executed) ends with exit code 0.
C8_AllStepsSucceedExitZero ==
    (pc = "done" /\ Cmd \in Catalogue /\ Absent = {} /\ NoStepFailed
        /\ \A i \in 1..Len(todo) : todo[i].fn = "wait")
    => exitCode = 0

\* C8 amended: for every command of the catalogue, an invocation with no tool
\* missing, no failing step and no interrupt runs its branch to the end and
\* exits 0; an invocation that an interrupt ended exits with 128 + SIGINT.
C8_UninterruptedSuccessExitsZero ==
    (pc = "done" /\ Cmd \in Catalogue /\ Absent = {} /\ NoStepFailed)
    => IF interrupted THEN exitCode = SIGINT_STATUS
       ELSE exitCode = 0 /\ todo = << >>

\* witness of C8: start-local passed its smoke test, waited for the child to
\* end and exited 0
C8_Witness ==
    /\ pc = "done"
    /\ Cmd = "start-local"
    /\ Absent = {}
    /\ NoStepFailed
    /\ ~interrupted
    /\ Executed("wait")
    /\ exitCode = 0

\* C9: start_app called with a mode other than local, docker or compose
\* starts nothing (no npm start, docker run or docker-compose up), leaves
\* LOCAL_PID unset, prints the invalid-mode error and exits 1.
C9_InvalidModeStartsNothing ==
    (Len(argv) = 1 /\ argv[1] \notin {"local", "docker", "compose"}) =>
        /\ LOCAL_PID = 0
        /\ localProc = "none"
        /\ launched = {}
        /\ Steps = << >>
        /\ (pc # "main" /\ ~interrupted) =>
              /\ exitCode = 1
              /\ Printed("[ERROR] Invalid mode: " \o argv[1])

\* witness of C9: start_app "bogus" has failed and the process has exited
C9_Witness ==
    /\ pc = "done"
    /\ argv = << "bogus" >>
    /\ Printed("[ERROR] Invalid mode: bogus")
    /\ exitCode = 1
    /\ LOCAL_PID = 0

\* C10 as stated: an uninterrupted invocation with an argument that is not a
\* recognized command reports the unknown command, prints the help, runs no
\* step and exits non-zero; with no argument it prints the help and exits 0.
C10_UnrecognizedArgumentFails ==
    (pc = "done" /\ ~interrupted) =>
        /\ (Len(argv) = 1 /\ argv[1] \notin Recognized) =>
              /\ exitCode # 0
              /\ Printed("[ERROR] Unknown command: " \o argv[1])
              /\ HelpPrinted
              /\ Steps = << >>
        /\ Len(argv) = 0 => exitCode = 0 /\ HelpPrinted /\ Steps = << >>

\* C10 amended: an uninterrupted invocation with a non-empty argument that is
\* not a recognized command reports it, prints the help, runs no step and
\* exits 1; with no argument or an empty argument it prints the help, reports
\* no unknown command, runs no step and exits 0.
C10_NonEmptyUnrecognizedArgumentFails ==
    (pc = "done" /\ ~interrupted) =>
        /\ (Len(argv) = 1 /\ argv[1] \notin Recognized \cup {""}) =>
              /\ exitCode = 1
              /\ Printed("[ERROR] Unknown command: " \o argv[1])
              /\ HelpPrinted
              /\ Steps = << >>
        /\ (Len(argv) = 0 \/ argv = << "" >>) =>
              /\ exitCode = 0
              /\ HelpPrinted
              /\ Steps = << >>
              /\ \A i \in 1..Len(out) : out[i] # "[ERROR] Unknown command: "

\* witness of C10: frobnicate was reported, the help printed, the exit code 1
C10_Witness ==
    /\ pc = "done"
    /\ argv = << "frobnicate" >>
    /\ Printed("[ERROR] Unknown command: frobnicate")
    /\ HelpPrinted
    /\ Steps = << >>
    /\ exitCode = 1

\* commands that install, build or start something on the host
SetupCmds == {"npm install", "docker build", "npm start &", "docker run",
              "docker-compose up"}

\* commands that stop or remove a container or the compose stack
TeardownCmds == {"docker-compose down", "docker stop", "docker rm"}

\* check_prerequisites has succeeded before the i-th command of ran
CheckedBefore(i) == \E j \in 1..(i - 1) : ran[j] = Ran("check_prerequisites", 0)

\* C11 as stated: every command that changes host state, the stopping and
\* removing of a container or compose stack included, is executed (here: has
\* taken effect) only after check_prerequisites succeeded in the invocation.
C11_EveryMutationAfterCheck ==
    \A i \in 1..Len(ran) :
        (ran[i].cmd \in SetupCmds \cup TeardownCmds /\ ran[i].st = 0)
        => CheckedBefore(i)

\* C11 amended: every command that installs, builds or starts (npm install,
\* docker build, npm start, docker run, docker-compose up) is executed only
\* after check_prerequisites succeeded in the same invocation.
C11_SetupStepsAfterCheck ==
    \A i \in 1..Len(ran) : ran[i].cmd \in SetupCmds => CheckedBefore(i)

\* witness of C11: start-docker built the image and started the container
\* after a successful check
C11_Witness ==
    /\ pc = "done"
    /\ Cmd = "start-docker"
    /\ ran[1] = Ran("check_prerequisites", 0)
    /\ ran[2] = Ran("docker build", 0)
    /\ ran[3] = Ran("docker run", 0)

\* C12: once start_app local has spawned the application and recorded its
\* identifier, LOCAL_PID stays set, and when the process has exited, however
\* the invocation ended, cleanup has sent a kill to that identifier.
C12_LocalProcessIsSignalled ==
    "local" \in launched =>
        /\ LOCAL_PID # 0
        /\ pc = "done" => /\ LOCAL_PID \in signalled
                          /\ Executed("kill")
                          /\ localProc # "running"

\* witness of C12: start-local was interrupted while waiting and the running
\* child was killed by cleanup
C12_Witness ==
    /\ pc = "done"
    /\ Cmd = "start-local"
    /\ interrupted
    /\ todo = << Call("wait", "") >>
    /\ localProc = "killed"
    /\ signalled = {LOCAL_PID}

\* how often a command was executed, and how often a line was printed
Count(cmd) == Cardinality({i \in 1..Len(ran) : ran[i].cmd = cmd})

CountOut(line) == Cardinality({i \in 1..Len(out) : out[i] = line})

\* C13: every execution of cleanup attempts docker-compose down, docker stop
\* and docker rm, and the kill when a process identifier is recorded, whatever
\* their outcome, and prints its completion message; the process has not
\* exited without it; the exit code set when the shell left the main body is
\* the exit code of the process.
C13_CleanupNeverFails ==
    /\ [](/\ Count("docker-compose down") = cleanups
          /\ Count("docker stop") = cleanups
          /\ Count("docker rm") = cleanups
          /\ Count("kill") = IF LOCAL_PID # 0 THEN cleanups ELSE 0
          /\ CountOut("[INFO] Cleaning up...") = cleanups
          /\ CountOut("[SUCCESS] Cleanup completed!") = cleanups
          /\ pc = "done" => cleanups >= 1)
    /\ [][pc = "trap" => exitCode' = exitCode]_vars

\* witness of C13: cleanup ran to its end although the recorded process was
\* already dead and neither docker nor docker-compose could do anything
C13_Witness ==
    /\ pc = "done"
    /\ exitCode = 1
    /\ Executed("curl /health")
    /\ \E i \in 1..(Len(ran) - 3) :
          /\ ran[i] = Ran("kill", 1)
          /\ ran[i + 1] = Ran("docker-compose down", 1)
          /\ ran[i + 2] = Ran("docker stop", 1)
          /\ ran[i + 3] = Ran("docker rm", 1)
    /\ out[Len(out)] = "[SUCCESS] Cleanup completed!"

\* the probes of test_app with the error line of each
ProbeOrder == << "curl /health", "curl /", "curl /api/info" >>

ProbeError ==
    << "[ERROR] Health endpoint failed!", "[ERROR] Main page failed!",
       "[ERROR] API endpoint failed!" >>

\* C14: the probes are made in the order health, main page, info, each only
\* right after the one before it succeeded; a probe that fails is the last
\* command of the main body, its error line is printed and the exit code is
\* non-zero; the all-endpoints line is printed only after three successes.
C14_SmokeTestStopsAtFirstFailure ==
    /\ \A i \in 1..Len(ran) : \A k \in 2..3 :
          ran[i].cmd = ProbeOrder[k] =>
              i > 1 /\ ran[i - 1] = Ran(ProbeOrder[k - 1], 0)
    /\ \A i \in 1..Len(Steps) : \A k \in 1..3 :
          (Steps[i].cmd = ProbeOrder[k] /\ Failed(Steps[i])) =>
              /\ i = Len(Steps)
              /\ Printed(ProbeError[k])
              /\ pc \in {"trap", "done"}
              /\ exitCode = 1
    /\ \A k \in 1..3 :
          Printed(ProbeError[k]) =>
              \E i \in 1..Len(ran) : ran[i].cmd = ProbeOrder[k] /\ Failed(ran[i])
    /\ Printed("[SUCCESS] All endpoints are working correctly!") =>
          \A k \in 1..3 : \E i \in 1..Len(ran) : ran[i] = Ran(ProbeOrder[k], 0)

\* witness of C14: the health probe passed, the main page failed, the info
\* endpoint was never probed
C14_Witness ==
    /\ pc = "done"
    /\ Cmd = "start-compose"
    /\ Count("curl /health") = 1
    /\ \E i \in 1..Len(ran) : ran[i].cmd = "curl /" /\ Failed(ran[i])
    /\ ~Executed("curl /api/info")
    /\ Printed("[ERROR] Main page failed!")
    /\ ~Printed("[SUCCESS] All endpoints are working correctly!")
    /\ exitCode = 1

\* C16: LOCAL_PID is only ever set by the one start_app local of the
\* invocation, and once it is set no step of the invocation changes it.
C16_PidWrittenOnce ==
    /\ [](/\ Count("npm start &") <= 1
          /\ LOCAL_PID # 0 <=> Count("npm start &") = 1
          /\ LOCAL_PID # 0 => "local" \in launched /\ Cmd = "start-local")
    /\ [][LOCAL_PID # 0 => LOCAL_PID' = LOCAL_PID]_vars

\* witness of C16: the local application runs under the recorded identifier
\* while the smoke test has already been made
C16_Witness ==
    /\ pc = "main"
    /\ LOCAL_PID = MaxPid
    /\ localProc = "running"
    /\ Executed("curl /health")

\* the success lines of the steps and of the branches
SuccessLines ==
    {"[SUCCESS] All prerequisites are met!",
     "[SUCCESS] Dependencies installed successfully!",
     "[SUCCESS] All tests passed!",
     "[SUCCESS] Docker image built successfully!",
     "[SUCCESS] All endpoints are working correctly!",
     "[SUCCESS] Setup completed!",
     "[SUCCESS] Cleanup completed!"}

\* the success lines an invocation of setup that ran through has printed
SetupLines ==
    << "[SUCCESS] All prerequisites are met!",
       "[SUCCESS] Dependencies installed successfully!",
       "[SUCCESS] All tests passed!",
       "[SUCCESS] Setup completed!",
       "[SUCCESS] Cleanup completed!" >>

\* setup ended with exit code 0 having printed its success lines in order
SetupRanThrough ==
    /\ exitCode = 0
    /\ SelectSeq(out, LAMBDA l : l \in SuccessLines) = SetupLines

\* the success line of a step is printed only after its commands exited zero
SuccessLineOnlyAfterSuccess ==
    /\ Printed("[SUCCESS] All prerequisites are met!") =>
          Ran("check_prerequisites", 0) \in Range(ran)
    /\ Printed("[SUCCESS] Dependencies installed successfully!") =>
          Ran("npm install", 0) \in Range(ran)
    /\ Printed("[SUCCESS] All tests passed!") =>
          Ran("npm run lint", 0) \in Range(ran) /\ Ran("npm test", 0) \in Range(ran)
    /\ Printed("[SUCCESS] Docker image built successfully!") =>
          Ran("docker build", 0) \in Range(ran)
    /\ Printed("[SUCCESS] Setup completed!") =>
          Cmd = "setup" /\ Len(Steps) = 4 /\ NoStepFailed

\* C19 as stated: setup with all tools present and install, lint and unit
\* tests succeeding prints the success lines of its three steps in order,
\* then 'Setup completed!', and exits 0; the success line of a step is
\* printed only if the step completed successfully.
C19_SetupPrintsSuccessLines ==
    /\ (/\ pc = "done"
        /\ Cmd = "setup"
        /\ Absent = {}
        /\ {Ran("npm install", 0), Ran("npm run lint", 0), Ran("npm test", 0)}
              \subseteq Range(ran))
       => SetupRanThrough
    /\ SuccessLineOnlyAfterSuccess

\* C19 amended: the same for a setup that no interrupt ended; an interrupt
\* that arrives after the unit tests succeeded ends setup with 130 before
\* 'Setup completed!' is printed.
C19_SetupSuccessLines ==
    /\ (/\ pc = "done"
        /\ Cmd = "setup"
        /\ Absent = {}
        /\ {Ran("npm install", 0), Ran("npm run lint", 0), Ran("npm test", 0)}
              \subseteq Range(ran)
        /\ ~interrupted)
       => SetupRanThrough
    /\ SuccessLineOnlyAfterSuccess

\* witness of C19: setup ran through and exited 0
C19_Witness ==
    /\ pc = "done"
    /\ Cmd = "setup"
    /\ ~interrupted
    /\ Printed("[SUCCESS] Setup completed!")
    /\ exitCode = 0

\* the three commands that start the application
StartCmds == {"npm start &", "docker run", "docker-compose up"}

\* C20: within one invocation each step command is executed at most once,
\* and at most one start is made.
C20_NoStepRetried ==
    /\ \A c \in StepCmds : Count(c) <= 1
    /\ Cardinality({i \in 1..Len(ran) : ran[i].cmd \in StartCmds}) <= 1

\* witness of C20: docker run failed in start-docker and was not tried again
C20_Witness ==
    /\ pc = "done"
    /\ Cmd = "start-docker"
    /\ Count("docker run") = 1
    /\ \E i \in 1..Len(ran) : ran[i].cmd = "docker run" /\ Failed(ran[i])
    /\ Count("docker build") = 1

\* the probe got status 200 within its timeout
AnsweredOkInTime ==
    /\ peer.kind = "answers"
    /\ peer.status = 200
    /\ peer.latency <= TimeoutMs

\* C15: the health probe always terminates, with exit code 0 when /health
\* answered 200 and with exit code 1 in every other case: another status
\* code, a connection error, or no response within TimeoutMs.
C15_ProbeTerminatesWithVerdict ==
    /\ <>(healthCheck.pc = "exited")
    /\ [](healthCheck.pc = "exited" =>
             healthCheck.exitCode = IF AnsweredOkInTime THEN 0 ELSE 1)

\* the request matches no route and no file of ./public
Unmatched ==
    /\ req # NoReq
    /\ req.path \notin {"/", "/health", "/api/info"}
    /\ StaticFile(req.path) \notin env.public

\* C17: a request whose path matches no route and no static file is answered
\* with 404 and the JSON body {error: 'Route not found'}, and never reaches
\* the 500 error handler.
C17_UnmatchedPathAnswers404 ==
    Unmatched =>
        /\ stage # "error"
        /\ stage = "sent" => /\ res.status = 404
                             /\ res.type = "json"
                             /\ res.body = [error |-> "Route not found"]

\* the field f of a JSON body, << >> when the body has no such field
Field(body, f) == IF f \in DOMAIN body THEN <<body[f]>> ELSE << >>

\* C18: GET /health always answers 200 with status 'healthy', a timestamp
\* and a version, and GET /api/info always answers 200 with message,
\* environment, version and hostname, environment and version falling back
\* to 'development' and '1.0.0' when their variables are unset.
C18_HealthAndInfoAnswer200 ==
    /\ (stage = "sent" /\ req.method = "GET" /\ req.path = "/health") =>
          /\ res.status = 200
          /\ res.type = "json"
          /\ DOMAIN res.body = {"status", "timestamp", "version"}
          /\ res.body.status = "healthy"
          /\ env.npm_package_version = Unset => res.body.version = "1.0.0"
    /\ (stage = "sent" /\ req.method = "GET" /\ req.path = "/api/info") =>
          /\ res.status = 200
          /\ res.type = "json"
          /\ DOMAIN res.body = {"message", "environment", "version", "hostname"}
          /\ env.NODE_ENV = Unset => res.body.environment = "development"
          /\ env.npm_package_version = Unset => res.body.version = "1.0.0"

\* C21: cleanup sends a termination signal only to the process this
\* invocation spawned through start_app local; an invocation that did not
\* run start_app local issues no kill at all.
C21_KillOnlyOwnChild ==
    /\ Executed("kill") => "local" \in launched
    /\ signalled \subseteq (IF "local" \in launched THEN {LOCAL_PID} ELSE {})
    /\ Cmd # "start-local" => signalled = {}

\* the first argument selects the help branch
HelpSelected == Cmd \in {"help", "--help", "-h"}

\* C22: the help command prints the catalogue and, unless an interrupt ends
\* it, exits 0 whatever tools are missing; no step of the invocation starts
\* or kills a local process or changes the container or the compose stack.
C22_HelpChangesNothing ==
    /\ []((HelpSelected /\ pc = "done" /\ ~interrupted) =>
             (HelpPrinted /\ exitCode = 0))
    /\ [][HelpSelected => UNCHANGED <<localProc, container, stack, launched,
                                      signalled>>]_vars

====
